---- MODULE Spec2Model ----
(***************************************************************************)
(* ts-nodify (src/cli.js): an interactive generator of Node.js + Express   *)
(* project skeletons.  The model follows the script top to bottom: the     *)
(* help block, the version block, the main async function with its prompt  *)
(* sequence, the folder-conflict handling, the package-manager calls and   *)
(* every file the script writes.  File contents are records that keep what *)
(* the templates decide: import syntax, import suffix, export convention,  *)
(* the rendered port and project name, the build step.                     *)
(***************************************************************************)
EXTENDS Integers, Sequences, FiniteSets, TLC

VARIABLES
  args,               \* process.argv.slice(2), as the set of flags given
  helpPc,             \* position of the help function (lines 27-88)
  helpRounds,         \* help sections shown so far
  pc,                 \* position of the script / the main function
  projectName,        \* let projectName (line 243, reassigned line 268)
  language,           \* answers.language
  moduleSystem,       \* answers.moduleSystem
  packages,           \* answers.packages
  port,               \* answers.port, the string the user typed
  deploymentHelpers,  \* answers.deploymentHelpers
  reasks,             \* rejections shown by the port question while it is open
  conflictAction,     \* choices.action of the folder-conflict prompt
  existing,           \* directories present in the working directory at start
  oldManifest,        \* package.json found inside an existing directory
  dirs,               \* directories of the project tree (relative to its root)
  files,              \* files of the project tree: path -> content
  log,                \* every effect of the run, in order
  exitCode            \* -1 while the process runs, else its exit status

vars == <<args, helpPc, helpRounds, pc, projectName, language, moduleSystem,
          packages, port, deploymentHelpers, reasks, conflictAction, existing,
          oldManifest, dirs, files, log, exitCode>>

answerVars == <<projectName, language, moduleSystem, packages, port,
                deploymentHelpers>>
fsVars == <<dirs, files>>
helpVars == <<helpPc, helpRounds>>
worldVars == <<args, existing, oldManifest>>

(***************************************************************************)
(* Bounds of the model.                                                    *)
(***************************************************************************)
MaxHelpRounds == 1    \* help sections read before 'Exit Help'
MaxReasks == 1        \* rejected port answers before a valid one

Running == 0 - 1

(***************************************************************************)
(* Strings the code inspects character by character are sequences of       *)
(* one-character strings.                                                  *)
(***************************************************************************)
Digits == {"0", "1", "2", "3", "4", "5", "6", "7", "8", "9"}

DigitVal(c) ==
  CASE c = "0" -> 0 [] c = "1" -> 1 [] c = "2" -> 2 [] c = "3" -> 3
    [] c = "4" -> 4 [] c = "5" -> 5 [] c = "6" -> 6 [] c = "7" -> 7
    [] c = "8" -> 8 [] c = "9" -> 9

RECURSIVE DigitPrefixLen(_)
DigitPrefixLen(s) ==
  IF s = <<>> \/ Head(s) \notin Digits THEN 0 ELSE 1 + DigitPrefixLen(Tail(s))

RECURSIVE DecimalValue(_)
DecimalValue(s) ==
  IF s = <<>> THEN 0
  ELSE 10 * DecimalValue(SubSeq(s, 1, Len(s) - 1)) + DigitVal(s[Len(s)])

RECURSIVE SkipSpaces(_)
SkipSpaces(s) ==
  IF s # <<>> /\ Head(s) = " " THEN SkipSpaces(Tail(s)) ELSE s

\* parseInt(input, 10): leading white space is skipped, one sign is read, then
\* the longest run of digits; what follows the digits is ignored; no digit
\* at all gives NaN.
ParseInt(input) ==
  LET t == SkipSpaces(input)
      neg == t # <<>> /\ Head(t) = "-"
      u == IF t # <<>> /\ Head(t) \in {"-", "+"} THEN Tail(t) ELSE t
      n == DigitPrefixLen(u)
      v == DecimalValue(SubSeq(u, 1, n))
  IN IF n = 0 THEN [nan |-> TRUE, val |-> 0]
     ELSE [nan |-> FALSE, val |-> IF neg THEN 0 - v ELSE v]

\* validate of the port question (lines 223-226): TRUE accepts the answer.
ValidatePort(input) ==
  LET parsed == ParseInt(input)
  IN ~parsed.nan /\ parsed.val > 0 /\ parsed.val < 65536

\* An input question returns its default when the line typed is empty.
InputAnswer(typed, default) == IF typed = <<>> THEN default ELSE typed

DefaultProjectName == <<"m", "y", "-", "n", "o", "d", "e", "-", "a", "p", "p">>
DefaultPort == <<"3", "0", "0", "0">>
NewSuffix == <<"-", "n", "e", "w">>

\* default of the rename question (line 265): `${projectName}-new`
RenameDefault(name) == name \o NewSuffix

LowerChar(c) ==
  CASE c = "A" -> "a" [] c = "B" -> "b" [] c = "P" -> "p" [] OTHER -> c

\* projectName.toLowerCase() (line 484)
ToLowerCase(s) == [i \in 1..Len(s) |-> LowerChar(s[i])]

(***************************************************************************)
(* The choices the prompts offer (lines 176-241).                          *)
(***************************************************************************)
LanguageChoices == {"TypeScript", "JavaScript"}

ESModules == "ES Modules (import/export)"
CommonJS == "CommonJS (require/module.exports)"

\* Both values are listed; CommonJS carries `disabled` and cannot be picked.
ModuleSystemChoices ==
  { [value |-> ESModules, disabled |-> FALSE],
    [value |-> CommonJS, disabled |-> TRUE] }

SelectableModuleSystems ==
  { c.value : c \in { d \in ModuleSystemChoices : ~d.disabled } }

PackageChoices == {"express"}

DeploymentChoices == {"dockerfile", "compose", "jenkins", "github"}

ConflictChoices ==
  {"Continue (overwrite)", "Choose a different name", "Cancel setup"}

HelpSections == {"Overview", "Commands", "Options", "Examples", "Exit Help"}

\* Lines the user may type at the three input questions.
NameApp == <<"A", "p", "p">>
TypedNames == { <<>>, NameApp }
TypedRenames == { <<>>, NameApp }
TypedPorts ==
  { <<>>, <<"1">>, <<"0">>, <<"6", "5", "5", "3", "5">>,
    <<"6", "5", "5", "3", "6">>, <<"8", "0", "a">>, <<"0", "0", "8", "0">>,
    <<"a">> }

\* Directories that may already exist where the tool is run.
NameUniverse == { NameApp, RenameDefault(NameApp) }

\* const isTS / const isESM (lines 245-246)
IsTS(lang) == lang = "TypeScript"
IsESM(ms) == Len(ms) >= 10 /\ SubSeq(ms, 1, 10) = "ES Modules"

(***************************************************************************)
(* Paths and file contents.                                                *)
(***************************************************************************)
\* A path below the project root: directory segments, base name, extension.
File(dir, base, ext) == [dir |-> dir, base |-> base, ext |-> ext]

PackageJsonPath == File(<<>>, "package", "json")
TsconfigPath == File(<<>>, "tsconfig", "json")
EnvPath == File(<<>>, ".env", "")
DockerfilePath == File(<<>>, "Dockerfile", "")
ComposePath == File(<<>>, "docker-compose", "yml")
JenkinsfilePath == File(<<>>, "Jenkinsfile", "")
CiPath == File(<<".github", "workflows">>, "ci", "yml")

\* A relative import or require statement of a generated source file:
\* `import x from './utils/logger.js'` is Import("import", "default",
\* <<"utils">>, "logger", ".js").
Import(syntax, shape, dir, base, suffix) ==
  [syntax |-> syntax, shape |-> shape, dir |-> dir, base |-> base,
   suffix |-> suffix]

\* A generated source file: how it loads packages, what it imports from the
\* project, how it exports, and the port literal it carries (<<>> if none).
Source(uses, imports, style, shape, portLit) ==
  [kind |-> "source", uses |-> uses, imports |-> imports,
   exports |-> [style |-> style, shape |-> shape], port |-> portLit]

\* LOGGER TEMPLATES (lines 116-170)
LOGGER_TS_ESM == Source("import", <<>>, "es", "default", <<>>)
LOGGER_JS_ESM == LOGGER_TS_ESM
LOGGER_TS_CJS == Source("require", <<>>, "cjs", "default", <<>>)
LOGGER_JS_CJS == LOGGER_TS_CJS

\* const ext / const esmExt (lines 340-341)
Ext(isTS) == IF isTS THEN "ts" ELSE "js"
EsmExt(isESM) == IF isESM THEN ".js" ELSE ""

\* loggerPath / loggerContent (lines 331-336)
LoggerPath(isTS) == File(<<"src", "utils">>, "logger", IF isTS THEN "ts" ELSE "js")

LoggerContent(isTS, isESM) ==
  IF isTS /\ isESM THEN LOGGER_TS_ESM
  ELSE IF isTS /\ ~isESM THEN LOGGER_TS_CJS
  ELSE IF ~isTS /\ isESM THEN LOGGER_JS_ESM
  ELSE LOGGER_JS_CJS

\* DB stub (lines 344-350)
DbContent(isTS, isESM) ==
  IF isTS THEN Source("none", <<>>, "es", "named", <<>>)
  ELSE IF isESM THEN Source("none", <<>>, "es", "named", <<>>)
  ELSE Source("none", <<>>, "cjs", "named", <<>>)

\* Swagger stub (lines 353-359)
SwaggerContent(isTS, isESM) ==
  IF isTS THEN Source("import", <<>>, "es", "named", <<>>)
  ELSE IF isESM THEN Source("import", <<>>, "es", "named", <<>>)
  ELSE Source("require", <<>>, "cjs", "named", <<>>)

\* Middleware: transactionId (lines 362-368)
TransactionIdContent(isTS, isESM) ==
  IF isTS THEN Source("import", <<>>, "es", "named", <<>>)
  ELSE IF isESM THEN Source("import", <<>>, "es", "named", <<>>)
  ELSE Source("require", <<>>, "cjs", "named", <<>>)

\* Middleware: loggerConsole (lines 371-377)
LoggerConsoleContent(isTS, isESM) ==
  IF isTS THEN Source("import", <<>>, "es", "named", <<>>)
  ELSE IF isESM THEN Source("none", <<>>, "es", "named", <<>>)
  ELSE Source("none", <<>>, "cjs", "named", <<>>)

\* Middleware: errorHandler (lines 380-386)
ErrorHandlerContent(isTS, isESM) ==
  IF isTS THEN Source("import", <<>>, "es", "named", <<>>)
  ELSE IF isESM THEN Source("none", <<>>, "es", "named", <<>>)
  ELSE Source("none", <<>>, "cjs", "named", <<>>)

\* healthCheckRoute (lines 389-395)
HealthCheckRouteContent(isTS, isESM) ==
  IF isTS THEN Source("import", <<>>, "es", "default", <<>>)
  ELSE IF isESM THEN Source("import", <<>>, "es", "default", <<>>)
  ELSE Source("require", <<>>, "cjs", "default", <<>>)

\* The five project imports of app.ts/js, in the order of the template.
AppImports(syntax, suffix) ==
  << Import(syntax, "named", <<"middleware">>, "transactionIdMiddleware", suffix),
     Import(syntax, "named", <<"middleware">>, "loggerConsole", suffix),
     Import(syntax, "named", <<"middleware">>, "errorHandler", suffix),
     Import(syntax, "named", <<"config">>, "swagger", suffix),
     Import(syntax, "default", <<"routes">>, "healthCheckRoute", suffix) >>

\* appFileContent (lines 399-404)
AppFileContent(isTS, isESM, esmExt) ==
  IF isTS THEN Source("import", AppImports("import", esmExt), "es", "default", <<>>)
  ELSE IF isESM THEN Source("import", AppImports("import", ".js"), "es", "default", <<>>)
  ELSE Source("require", AppImports("require", ""), "cjs", "default", <<>>)

\* The three project imports of server.ts/js.
ServerImports(syntax, suffix) ==
  << Import(syntax, "default", <<>>, "app", suffix),
     Import(syntax, "default", <<"utils">>, "logger", suffix),
     Import(syntax, "named", <<"config">>, "db", suffix) >>

\* serverFileContent with the TypeScript body written without the suffix
\* parameter: what forgetting to thread esmExt into one template gives.
ServerFileContentBareImports(isTS, isESM, esmExt, p) ==
  IF isTS THEN Source("import", ServerImports("import", ""), "none", "none", p)
  ELSE IF isESM THEN Source("import", ServerImports("import", ".js"), "none", "none", p)
  ELSE Source("require", ServerImports("require", ""), "none", "none", p)

\* serverFileContent (lines 410-415); the file exports nothing.
ServerFileContent(isTS, isESM, esmExt, p) ==
  IF isTS THEN Source("import", ServerImports("import", esmExt), "none", "none", p)
  ELSE IF isESM THEN Source("import", ServerImports("import", ".js"), "none", "none", p)
  ELSE Source("require", ServerImports("require", ""), "none", "none", p)

\* const tsconfig (lines 285-299)
Tsconfig(isESM) ==
  [kind |-> "tsconfig",
   module |-> IF isESM THEN "NodeNext" ELSE "CommonJS",
   moduleResolution |-> IF isESM THEN "NodeNext" ELSE "Node",
   outDir |-> "dist", rootDir |-> "./src",
   allowSyntheticDefaultImports |-> isESM]

\* .env (line 312)
EnvContent(p) == [kind |-> "env", PORT |-> p, DB_URI |-> "", API_VERSION |-> "v1"]

\* dockerfileContent (lines 419-434)
DockerfileContent(isTS, p) ==
  [kind |-> "dockerfile", runBuild |-> isTS, expose |-> p, cmd |-> "npm start"]

\* The key under `services:` (line 439) is the literal `app`.
ComposeServiceName == <<"a", "p", "p">>

\* dockerComposeContent with the container side of the mapping fixed at the
\* default port instead of the configured one.
DockerComposeContentFixedContainerPort(name, p) ==
  [kind |-> "compose", service |-> ComposeServiceName, container_name |-> name,
   ports |-> <<p, DefaultPort>>, envPort |-> p, command |-> "npm run dev"]

\* dockerComposeContent (lines 436-451)
DockerComposeContent(name, p) ==
  [kind |-> "compose", service |-> ComposeServiceName, container_name |-> name,
   ports |-> <<p, p>>, envPort |-> p, command |-> "npm run dev"]

\* jenkinsfileContent (lines 453-489)
JenkinsfileContent(isTS, name) ==
  [kind |-> "jenkinsfile", runBuild |-> isTS, image |-> ToLowerCase(name)]

\* ciContent (lines 507-528)
CiContent(isTS) == [kind |-> "ci", runBuild |-> isTS]

(***************************************************************************)
(* package.json.  `npm init -y` writes a manifest with a test script and no *)
(* "type" field, and keeps the fields of a manifest that is already there. *)
(***************************************************************************)
NoField == "(absent)"

Manifest(type, start, dev, build) ==
  [kind |-> "manifest", type |-> type,
   scripts |-> [start |-> start, dev |-> dev, build |-> build,
                test |-> "echo \"Error: no test specified\" && exit 1"],
   dependencies |-> {}, devDependencies |-> {}]

FreshManifest == Manifest(NoField, NoField, NoField, NoField)

\* Manifests a directory left by an earlier run may hold.
OldManifests == { Manifest("module", "node index.js", NoField, "tsc") }

\* Update package.json (lines 316-327): the object after the assignments.
AmendManifest(pkgJson, isTS, isESM) ==
  LET typed == IF isESM THEN [pkgJson EXCEPT !.type = "module"] ELSE pkgJson
  IN IF isTS
     THEN [typed EXCEPT !.scripts.start = "node dist/server.js",
                        !.scripts.dev = IF isESM
                                        THEN "node --loader ts-node/esm src/server.ts"
                                        ELSE "ts-node src/server.ts"]
     ELSE [typed EXCEPT !.scripts.start = "node src/server.js",
                        !.scripts.dev = "nodemon src/server.js"]

\* The dev dependencies of lines 282 and 302.
DevDependencies(isTS) ==
  IF isTS
  THEN {"typescript", "ts-node", "ts-node-dev", "@types/node", "@types/express",
        "@types/cors", "@types/cookie-parser", "@types/morgan", "@types/bcrypt",
        "@types/swagger-ui-express", "@types/uuid"}
  ELSE {"nodemon"}

\* The folder list with 'src/utils' left out.
FoldersWithoutUtils ==
  << <<"src", "controllers">>, <<"src", "routes">>, <<"src", "services">>,
     <<"src", "models">>, <<"src", "middleware">>, <<"src", "types">>,
     <<"src", "config">> >>

\* const folders (lines 306-309)
Folders ==
  << <<"src", "controllers">>, <<"src", "routes">>, <<"src", "services">>,
     <<"src", "models">>, <<"src", "middleware">>, <<"src", "utils">>,
     <<"src", "types">>, <<"src", "config">> >>

\* fs.mkdirSync(p, { recursive: true }): p and every ancestor of p.
Prefixes(p) == { SubSeq(p, 1, n) : n \in 0..Len(p) }

(***************************************************************************)
(* Effects.                                                                *)
(***************************************************************************)
MkdirEvent(d) == [op |-> "mkdir", dir |-> d]
WriteEvent(path, content) == [op |-> "write", path |-> path, content |-> content]
ExecEvent(cmd, ok) == [op |-> "exec", cmd |-> cmd, ok |-> ok]
PrintEvent(text) == [op |-> "print", text |-> text]
ChdirEvent == [op |-> "chdir"]

Put(f, path, content) ==
  [q \in DOMAIN f \cup {path} |-> IF q = path THEN content ELSE f[q]]

NoFiles == [q \in {} |-> FreshManifest]

\* An exception thrown inside the main async function rejects its promise;
\* nothing handles the rejection and the process ends with status 1.
Throws ==
  /\ pc' = "crashed"
  /\ exitCode' = 1

\* fs.writeFileSync(path, content): throws when the directory is missing.
WriteFileSync(path, content, next) ==
  IF path.dir \in dirs
  THEN /\ files' = Put(files, path, content)
       /\ log' = Append(log, WriteEvent(path, content))
       /\ pc' = next
       /\ UNCHANGED <<dirs, exitCode>>
  ELSE /\ Throws
       /\ UNCHANGED <<dirs, files, log>>

\* execSync wrapped so that a failing command is ignored and the script
\* goes on.
ExecSyncIgnoringFailure(cmd, ok, newFiles, next) ==
  /\ log' = Append(log, ExecEvent(cmd, ok))
  /\ files' = IF ok THEN newFiles ELSE files
  /\ pc' = next
  /\ UNCHANGED <<dirs, exitCode>>

\* execSync(cmd): throws when the command fails.
ExecSync(cmd, ok, newFiles, next) ==
  /\ log' = Append(log, ExecEvent(cmd, ok))
  /\ IF ok
     THEN /\ files' = newFiles
          /\ pc' = next
          /\ UNCHANGED exitCode
     ELSE /\ Throws
          /\ UNCHANGED files
  /\ UNCHANGED dirs

isTS == IsTS(language)
isESM == IsESM(moduleSystem)
ext == Ext(isTS)
esmExt == EsmExt(isESM)

Alive == exitCode = Running

(***************************************************************************)
(* The script, top to bottom.                                              *)
(***************************************************************************)
ArgChoices == { {}, {"--help"}, {"--version"}, {"-h", "-v"} }

NoManifest == [kind |-> "none"]

\* Where the tool is run: which directories exist, and what manifest they
\* hold.  The help menu is explored in an empty working directory.
Worlds ==
  /\ existing \in SUBSET NameUniverse
  /\ oldManifest \in OldManifests \cup {NoManifest}
  /\ existing = {} => oldManifest = NoManifest
  /\ (args \cap {"--help", "-h"} # {}) => existing = {}

Init ==
  /\ args \in ArgChoices
  /\ Worlds
  /\ helpPc = "off"
  /\ helpRounds = 0
  /\ pc = "boot"
  /\ projectName = <<>>
  /\ language = ""
  /\ moduleSystem = ""
  /\ packages = {}
  /\ port = <<>>
  /\ deploymentHelpers = {}
  /\ reasks = 0
  /\ conflictAction = ""
  /\ dirs = {}
  /\ files = NoFiles
  /\ log = <<>>
  /\ exitCode = Running

\* HELP MESSAGE (lines 20-89): the async function runs up to its first
\* await, leaving the section prompt open; the script then goes on.
HelpBlock ==
  /\ Alive /\ pc = "boot"
  /\ helpPc' = IF "--help" \in args \/ "-h" \in args THEN "prompt" ELSE "off"
  /\ pc' = "version"
  /\ UNCHANGED <<helpRounds, answerVars, reasks, conflictAction, worldVars,
                 fsVars, log, exitCode>>

\* One turn of the help loop (lines 29-87).
HelpSelect(section) ==
  /\ Alive /\ helpPc = "prompt"
  /\ pc \notin {"boot", "version", "main"}
  /\ IF section = "Exit Help"
     THEN helpPc' = "closed" /\ UNCHANGED helpRounds
     ELSE /\ helpRounds < MaxHelpRounds
          /\ helpRounds' = helpRounds + 1
          /\ UNCHANGED helpPc
  /\ UNCHANGED <<pc, answerVars, reasks, conflictAction, worldVars, fsVars,
                 log, exitCode>>

\* Version MESSAGE (lines 93-113)
VersionBlock ==
  /\ Alive /\ pc = "version"
  /\ IF "--version" \in args \/ "-v" \in args
     THEN /\ log' = Append(log, PrintEvent("version"))
          /\ exitCode' = 0
          /\ pc' = "exited"
     ELSE /\ pc' = "main"
          /\ UNCHANGED <<log, exitCode>>
  /\ UNCHANGED <<helpVars, answerVars, reasks, conflictAction, worldVars, fsVars>>

\* MAIN SCRIPT (lines 173-176): the function starts whatever the flags were.
MainStart ==
  /\ Alive /\ pc = "main"
  /\ log' = Append(log, PrintEvent("Starting Node.js project setup..."))
  /\ pc' = "askName"
  /\ UNCHANGED <<helpVars, answerVars, reasks, conflictAction, worldVars,
                 fsVars, exitCode>>

\* question projectName (lines 177-182): no validate.
AskProjectName(typed) ==
  /\ Alive /\ pc = "askName"
  /\ projectName' = InputAnswer(typed, DefaultProjectName)
  /\ pc' = "askLanguage"
  /\ UNCHANGED <<helpVars, language, moduleSystem, packages, port,
                 deploymentHelpers, reasks, conflictAction, worldVars, fsVars,
                 log, exitCode>>

\* question language (lines 183-189)
AskLanguage(choice) ==
  /\ Alive /\ pc = "askLanguage"
  /\ language' = choice
  /\ pc' = "askModule"
  /\ UNCHANGED <<helpVars, projectName, moduleSystem, packages, port,
                 deploymentHelpers, reasks, conflictAction, worldVars, fsVars,
                 log, exitCode>>

\* question moduleSystem (lines 190-199)
AskModuleSystem(choice) ==
  /\ Alive /\ pc = "askModule"
  /\ moduleSystem' = choice
  /\ pc' = "askPackages"
  /\ UNCHANGED <<helpVars, projectName, language, packages, port,
                 deploymentHelpers, reasks, conflictAction, worldVars, fsVars,
                 log, exitCode>>

\* question packages (lines 200-217)
AskPackages(choice) ==
  /\ Alive /\ pc = "askPackages"
  /\ packages' = choice
  /\ pc' = "askPort"
  /\ UNCHANGED <<helpVars, projectName, language, moduleSystem, port,
                 deploymentHelpers, reasks, conflictAction, worldVars, fsVars,
                 log, exitCode>>

\* question port (lines 218-227): an answer validate rejects leaves the
\* question open with 'Please enter a valid port number' under it; the
\* message goes away with the question.
AskPort(typed) ==
  /\ Alive /\ pc = "askPort"
  /\ LET answer == InputAnswer(typed, DefaultPort)
     IN IF ValidatePort(answer)
        THEN /\ port' = answer
             /\ pc' = "askHelpers"
             /\ reasks' = 0
        ELSE /\ reasks < MaxReasks
             /\ reasks' = reasks + 1
             /\ UNCHANGED <<port, pc>>
  /\ UNCHANGED <<helpVars, projectName, language, moduleSystem, packages,
                 deploymentHelpers, conflictAction, worldVars, fsVars, log,
                 exitCode>>

\* question deploymentHelpers (lines 228-239), then line 243.
AskDeploymentHelpers(choice) ==
  /\ Alive /\ pc = "askHelpers"
  /\ deploymentHelpers' = choice
  /\ pc' = "checkConflict"
  /\ UNCHANGED <<helpVars, projectName, language, moduleSystem, packages, port,
                 reasks, conflictAction, worldVars, fsVars, log, exitCode>>

\* if (fs.existsSync(projectName)) (line 249)
CheckConflict ==
  /\ Alive /\ pc = "checkConflict"
  /\ pc' = IF projectName \in existing THEN "askConflict" ELSE "mkdir"
  /\ UNCHANGED <<helpVars, answerVars, reasks, conflictAction, worldVars,
                 fsVars, log, exitCode>>

\* The conflict handling without the process.exit(1) of line 258: 'Cancel
\* setup' falls through to the directory creation.
ResolveConflictNoExit(action) ==
  /\ Alive /\ pc = "askConflict"
  /\ conflictAction' = action
  /\ pc' = IF action = "Choose a different name" THEN "askRename" ELSE "mkdir"
  /\ UNCHANGED <<helpVars, answerVars, reasks, worldVars, fsVars, log, exitCode>>

\* the conflict question and the two tests on its answer (lines 250-259)
ResolveConflict(action) ==
  /\ Alive /\ pc = "askConflict"
  /\ conflictAction' = action
  /\ IF action = "Cancel setup"
     THEN pc' = "exited" /\ exitCode' = 1
     ELSE /\ pc' = IF action = "Choose a different name" THEN "askRename"
                   ELSE "mkdir"
          /\ UNCHANGED exitCode
  /\ UNCHANGED <<helpVars, answerVars, reasks, worldVars, fsVars, log>>

\* the rename question (lines 260-268): the new name is used as it is.
Rename(typed) ==
  /\ Alive /\ pc = "askRename"
  /\ projectName' = InputAnswer(typed, RenameDefault(projectName))
  /\ pc' = "mkdir"
  /\ UNCHANGED <<helpVars, language, moduleSystem, packages, port,
                 deploymentHelpers, reasks, conflictAction, worldVars, fsVars,
                 log, exitCode>>

\* fs.mkdirSync(projectName, { recursive: true }); process.chdir(projectName)
\* (lines 272-273).  From here on paths are relative to the project root.
MakeProjectDir ==
  /\ Alive /\ pc = "mkdir"
  /\ dirs' = {<<>>}
  /\ files' = IF projectName \in existing /\ oldManifest # NoManifest
              THEN Put(NoFiles, PackageJsonPath, oldManifest)
              ELSE NoFiles
  /\ log' = log \o <<MkdirEvent(<<>>), ChdirEvent>>
  /\ pc' = "npmInit"
  /\ UNCHANGED <<helpVars, answerVars, reasks, conflictAction, worldVars,
                 exitCode>>

Rest == UNCHANGED <<helpVars, answerVars, reasks, conflictAction, worldVars>>

\* execSync('npm init -y') (line 276): creates package.json, or keeps the
\* fields of the one already in the directory.
NpmInit(ok) ==
  /\ Alive /\ pc = "npmInit"
  /\ ExecSync("npm init -y", ok,
              IF PackageJsonPath \in DOMAIN files THEN files
              ELSE Put(files, PackageJsonPath, FreshManifest),
              "npmInstall")
  /\ Rest

\* execSync(`npm install ${packages.join(' ')}`) (line 277)
NpmInstall(ok) ==
  /\ Alive /\ pc = "npmInstall"
  /\ ExecSync("npm install", ok,
              [files EXCEPT ![PackageJsonPath].dependencies = @ \cup packages],
              "devDeps")
  /\ Rest

\* the dev-dependency install of the TS / JS setup (lines 280-284, 301-303)
InstallDevDeps(ok) ==
  /\ Alive /\ pc = "devDeps"
  /\ ExecSync("npm install --save-dev", ok,
              [files EXCEPT ![PackageJsonPath].devDependencies =
                              @ \cup DevDependencies(isTS)],
              IF isTS THEN "tsconfig" ELSE "folders")
  /\ Rest

\* fs.writeFileSync('tsconfig.json', ...) (lines 285-300), TypeScript only
WriteTsconfig ==
  /\ Alive /\ pc = "tsconfig"
  /\ WriteFileSync(TsconfigPath, Tsconfig(isESM), "folders")
  /\ Rest

\* Scaffold folders (lines 306-310)
ScaffoldFolders ==
  /\ Alive /\ pc = "folders"
  /\ dirs' = dirs \cup UNION { Prefixes(Folders[i]) : i \in 1..Len(Folders) }
  /\ log' = log \o [i \in 1..Len(Folders) |-> MkdirEvent(Folders[i])]
  /\ pc' = "env"
  /\ UNCHANGED <<files, exitCode>>
  /\ Rest

\* .env (line 312)
WriteEnv ==
  /\ Alive /\ pc = "env"
  /\ WriteFileSync(EnvPath, EnvContent(port), "pkgUpdate")
  /\ Rest

\* Update package.json (lines 315-328): read, amend, write back.
UpdatePackageJson ==
  /\ Alive /\ pc = "pkgUpdate"
  /\ IF PackageJsonPath \in DOMAIN files
     THEN LET pkgJson == AmendManifest(files[PackageJsonPath], isTS, isESM)
          IN /\ files' = Put(files, PackageJsonPath, pkgJson)
             /\ log' = log \o << [op |-> "read", path |-> PackageJsonPath],
                                 WriteEvent(PackageJsonPath, pkgJson) >>
             /\ pc' = "logger"
             /\ UNCHANGED exitCode
     ELSE /\ Throws
          /\ UNCHANGED <<files, log>>
  /\ UNCHANGED dirs
  /\ Rest

\* Generate utils/logger (lines 331-337)
WriteLogger ==
  /\ Alive /\ pc = "logger"
  /\ WriteFileSync(LoggerPath(isTS), LoggerContent(isTS, isESM), "db")
  /\ Rest

\* DB Stub (lines 344-350)
WriteDb ==
  /\ Alive /\ pc = "db"
  /\ WriteFileSync(File(<<"src", "config">>, "db", ext),
                   DbContent(isTS, isESM), "swagger")
  /\ Rest

\* Swagger Stub (lines 353-359)
WriteSwagger ==
  /\ Alive /\ pc = "swagger"
  /\ WriteFileSync(File(<<"src", "config">>, "swagger", ext),
                   SwaggerContent(isTS, isESM), "transactionId")
  /\ Rest

\* Middleware: transactionId (lines 362-368)
WriteTransactionId ==
  /\ Alive /\ pc = "transactionId"
  /\ WriteFileSync(File(<<"src", "middleware">>, "transactionIdMiddleware", ext),
                   TransactionIdContent(isTS, isESM), "loggerConsole")
  /\ Rest

\* Middleware: loggerConsole (lines 371-377)
WriteLoggerConsole ==
  /\ Alive /\ pc = "loggerConsole"
  /\ WriteFileSync(File(<<"src", "middleware">>, "loggerConsole", ext),
                   LoggerConsoleContent(isTS, isESM), "errorHandler")
  /\ Rest

\* Middleware: errorHandler (lines 380-386)
WriteErrorHandler ==
  /\ Alive /\ pc = "errorHandler"
  /\ WriteFileSync(File(<<"src", "middleware">>, "errorHandler", ext),
                   ErrorHandlerContent(isTS, isESM), "health")
  /\ Rest

\* Scaffold healthCheckRoute (lines 389-395)
WriteHealthCheckRoute ==
  /\ Alive /\ pc = "health"
  /\ WriteFileSync(File(<<"src", "routes">>, "healthCheckRoute", ext),
                   HealthCheckRouteContent(isTS, isESM), "app")
  /\ Rest

\* Scaffold app.ts/js (lines 398-406)
WriteApp ==
  /\ Alive /\ pc = "app"
  /\ WriteFileSync(File(<<"src">>, "app", ext),
                   AppFileContent(isTS, isESM, esmExt), "server")
  /\ Rest

\* Scaffold server.ts/js (lines 409-416)
WriteServer ==
  /\ Alive /\ pc = "server"
  /\ WriteFileSync(File(<<"src">>, "server", ext),
                   ServerFileContent(isTS, isESM, esmExt, port), "dockerfile")
  /\ Rest

Skip(next) ==
  /\ pc' = next
  /\ UNCHANGED <<fsVars, log, exitCode>>

\* if (deploymentHelpers.includes("dockerfile")) (lines 491-494)
EmitDockerfile ==
  /\ Alive /\ pc = "dockerfile"
  /\ IF "dockerfile" \in deploymentHelpers
     THEN WriteFileSync(DockerfilePath, DockerfileContent(isTS, port), "compose")
     ELSE Skip("compose")
  /\ Rest

\* The compose block guarded by the dockerfile helper, as a copied `if`
\* would be.
EmitComposeOnDockerfile ==
  /\ Alive /\ pc = "compose"
  /\ IF "dockerfile" \in deploymentHelpers
     THEN WriteFileSync(ComposePath, DockerComposeContent(projectName, port),
                        "jenkins")
     ELSE Skip("jenkins")
  /\ Rest

\* if (deploymentHelpers.includes("compose")) (lines 496-499)
EmitCompose ==
  /\ Alive /\ pc = "compose"
  /\ IF "compose" \in deploymentHelpers
     THEN WriteFileSync(ComposePath, DockerComposeContent(projectName, port),
                        "jenkins")
     ELSE Skip("jenkins")
  /\ Rest

\* if (deploymentHelpers.includes("jenkins")) (lines 501-504)
EmitJenkins ==
  /\ Alive /\ pc = "jenkins"
  /\ IF "jenkins" \in deploymentHelpers
     THEN WriteFileSync(JenkinsfilePath, JenkinsfileContent(isTS, projectName),
                        "github")
     ELSE Skip("github")
  /\ Rest

\* directories made before ci.yml is written (line 529)
CiDirs == Prefixes(CiPath.dir)

\* if (deploymentHelpers.includes("github")) (lines 506-532)
EmitGithub ==
  /\ Alive /\ pc = "github"
  /\ IF "github" \in deploymentHelpers
     THEN IF CiPath.dir \in dirs \cup CiDirs
          THEN /\ dirs' = dirs \cup CiDirs
               /\ files' = Put(files, CiPath, CiContent(isTS))
               /\ log' = log \o << MkdirEvent(CiPath.dir),
                                   WriteEvent(CiPath, CiContent(isTS)) >>
               /\ pc' = "final"
               /\ UNCHANGED exitCode
          ELSE /\ Throws
               /\ UNCHANGED <<fsVars, log>>
     ELSE Skip("final")
  /\ Rest

CompletionMessage == "scaffolded successfully"

\* Final messages (lines 536-554)
FinalMessages ==
  /\ Alive /\ pc = "final"
  /\ log' = log \o << PrintEvent("Project Setup Complete!"),
                      PrintEvent(CompletionMessage) >>
  /\ pc' = "done"
  /\ UNCHANGED <<fsVars, exitCode>>
  /\ Rest

\* Nothing is left to run: the process ends with status 0.
ProcessEnd ==
  /\ Alive /\ pc = "done" /\ helpPc # "prompt"
  /\ exitCode' = 0
  /\ UNCHANGED <<pc, fsVars, log>>
  /\ Rest

Generate ==
  \/ CheckConflict
  \/ \E action \in ConflictChoices : ResolveConflict(action)
  \/ \E typed \in TypedRenames : Rename(typed)
  \/ MakeProjectDir
  \/ \E ok \in BOOLEAN : NpmInit(ok)
  \/ \E ok \in BOOLEAN : NpmInstall(ok)
  \/ \E ok \in BOOLEAN : InstallDevDeps(ok)
  \/ WriteTsconfig
  \/ ScaffoldFolders
  \/ WriteEnv
  \/ UpdatePackageJson
  \/ WriteLogger
  \/ WriteDb
  \/ WriteSwagger
  \/ WriteTransactionId
  \/ WriteLoggerConsole
  \/ WriteErrorHandler
  \/ WriteHealthCheckRoute
  \/ WriteApp
  \/ WriteServer
  \/ EmitDockerfile
  \/ EmitCompose
  \/ EmitJenkins
  \/ EmitGithub
  \/ FinalMessages
  \/ ProcessEnd

Next ==
  \/ HelpBlock
  \/ \E section \in HelpSections : HelpSelect(section)
  \/ VersionBlock
  \/ MainStart
  \/ \E typed \in TypedNames : AskProjectName(typed)
  \/ \E choice \in LanguageChoices : AskLanguage(choice)
  \/ \E choice \in SelectableModuleSystems : AskModuleSystem(choice)
  \/ \E choice \in SUBSET PackageChoices : AskPackages(choice)
  \/ \E typed \in TypedPorts : AskPort(typed)
  \/ \E choice \in SUBSET DeploymentChoices : AskDeploymentHelpers(choice)
  \/ Generate

\* The program as it runs.
Spec == Init /\ [][Next]_vars

(***************************************************************************)
(* The generation pipeline over all four variants.  The state after line   *)
(* 246 with any answer the question list names, the CommonJS value         *)
(* included: the templates carry a body for it although the prompt does    *)
(* not let it through today.                                               *)
(***************************************************************************)
InitVariants ==
  /\ args = {}
  /\ Worlds
  /\ helpPc = "off"
  /\ helpRounds = 0
  /\ pc = "checkConflict"
  /\ projectName \in { InputAnswer(t, DefaultProjectName) : t \in TypedNames }
  /\ language \in LanguageChoices
  /\ moduleSystem \in { c.value : c \in ModuleSystemChoices }
  /\ packages = PackageChoices
  /\ port \in { a \in { InputAnswer(t, DefaultPort) : t \in TypedPorts } :
                  ValidatePort(a) }
  /\ deploymentHelpers \in SUBSET DeploymentChoices
  /\ reasks = 0
  /\ conflictAction = ""
  /\ dirs = {}
  /\ files = NoFiles
  /\ log = <<>>
  /\ exitCode = Running

SpecVariants == InitVariants /\ [][Generate]_vars

(***************************************************************************)
(* Properties.                                                             *)
(***************************************************************************)
Range(seq) == { seq[i] : i \in 1..Len(seq) }

SourcePaths == { q \in DOMAIN files : files[q].kind = "source" }

\* Every relative import or require statement of the files written so far.
EmittedImports == UNION { Range(files[q].imports) : q \in SourcePaths }

\* Effects that change the file system or run the package manager.
MutationOps == {"mkdir", "chdir", "exec", "write"}
Mutated == \E i \in 1..Len(log) : log[i].op \in MutationOps

Printed(text) == \E i \in 1..Len(log) : log[i].op = "print" /\ log[i].text = text

\* C1: in one run, for each of the four variants, all relative imports and
\* requires emitted (the five of the app entry, the three of the server
\* entry) carry the same suffix: all end in '.js' or none does.
C1_SameSuffixEverywhere ==
  \/ \A i \in EmittedImports : i.suffix = ".js"
  \/ \A i \in EmittedImports : i.suffix = ""

\* A finished TypeScript + ES Modules run: app and server are written and
\* their eight imports end in '.js'.
C1_Witness ==
  /\ pc = "done" /\ isTS /\ isESM
  /\ Cardinality(EmittedImports) = 8
  /\ \A i \in EmittedImports : i.suffix = ".js"

\* The file an import statement of the source file at path `from` resolves
\* to: same directory below the importer, same base name, a source extension.
ImportTargets(from, i) ==
  { q \in SourcePaths : q.dir = from.dir \o i.dir /\ q.base = i.base }

ImportMatchesExport(i, target) ==
  /\ i.syntax = "import" <=> target.exports.style = "es"
  /\ i.syntax = "require" <=> target.exports.style = "cjs"
  /\ i.shape = target.exports.shape

C3_NoSilentOverwrite ==
  pc = "mkdir" =>
    \/ projectName \notin existing
    \/ conflictAction = "Continue (overwrite)"

\* C4: after 'Cancel setup' the process has ended with a non-zero status
\* and the run has made no directory, changed no directory, run no
\* package-manager command and written no file.
C4_CancelLeavesNoTrace ==
  conflictAction = "Cancel setup" =>
    /\ exitCode # Running /\ exitCode # 0
    /\ ~Mutated
    /\ dirs = {} /\ DOMAIN files = {}

\* The user cancelled at the conflict question and the process has ended.
C4_Witness ==
  /\ conflictAction = "Cancel setup"
  /\ projectName \in existing
  /\ exitCode = 1

ExecIndexes == { i \in 1..Len(log) : log[i].op = "exec" }
FailedExecs == { i \in ExecIndexes : ~log[i].ok }
WriteIndexes == { i \in 1..Len(log) : log[i].op = "write" }
WritesTo(path) == { i \in WriteIndexes : log[i].path = path }
WrittenPaths == { log[i].path : i \in WriteIndexes }

DeploymentPath(helper) ==
  CASE helper = "dockerfile" -> DockerfilePath
    [] helper = "compose" -> ComposePath
    [] helper = "jenkins" -> JenkinsfilePath
    [] helper = "github" -> CiPath

DeploymentPaths == { DeploymentPath(h) : h \in DeploymentChoices }

\* The core artifacts of a run and their contents, from the answers alone;
\* package.json is listed apart because its content also holds what npm
\* wrote.
CoreArtifacts(ts, esm, p) ==
  LET e == IF ts THEN "ts" ELSE "js"
      suffix == IF esm THEN ".js" ELSE ""
  IN { <<EnvPath, EnvContent(p)>>,
       <<File(<<"src", "utils">>, "logger", e), LoggerContent(ts, esm)>>,
       <<File(<<"src", "config">>, "db", e), DbContent(ts, esm)>>,
       <<File(<<"src", "config">>, "swagger", e), SwaggerContent(ts, esm)>>,
       <<File(<<"src", "middleware">>, "transactionIdMiddleware", e),
         TransactionIdContent(ts, esm)>>,
       <<File(<<"src", "middleware">>, "loggerConsole", e),
         LoggerConsoleContent(ts, esm)>>,
       <<File(<<"src", "middleware">>, "errorHandler", e),
         ErrorHandlerContent(ts, esm)>>,
       <<File(<<"src", "routes">>, "healthCheckRoute", e),
         HealthCheckRouteContent(ts, esm)>>,
       <<File(<<"src">>, "app", e), AppFileContent(ts, esm, suffix)>>,
       <<File(<<"src">>, "server", e), ServerFileContent(ts, esm, suffix, p)>> }
  \cup (IF ts THEN { <<TsconfigPath, Tsconfig(esm)>> } ELSE {})

CorePaths(ts, esm, p) ==
  { a[1] : a \in CoreArtifacts(ts, esm, p) } \cup {PackageJsonPath}

PlannedPaths ==
  CorePaths(isTS, isESM, port)
  \cup { DeploymentPath(h) : h \in deploymentHelpers }

\* C5: a failing package-manager command is the last effect of the run:
\* nothing is written after it, the process ends with a non-zero status and
\* the completion message is not printed; and the completion message is
\* printed only once every planned artifact has been written.
C5_FailureStopsPipeline ==
  /\ \A i \in FailedExecs :
       /\ i = Len(log)
       /\ exitCode # Running /\ exitCode # 0
       /\ ~Printed(CompletionMessage)
  /\ Printed(CompletionMessage) =>
       /\ FailedExecs = {}
       /\ PlannedPaths \subseteq WrittenPaths \cup {PackageJsonPath}
       /\ PlannedPaths \subseteq DOMAIN files

\* The install of the selected packages failed after npm init had
\* succeeded: the run is over with status 1.
C5_Witness ==
  /\ \E i \in FailedExecs : log[i].cmd = "npm install"
  /\ \E i \in ExecIndexes : log[i].cmd = "npm init -y" /\ log[i].ok
  /\ pc = "crashed" /\ exitCode = 1

HelpRequested == "--help" \in args \/ "-h" \in args
VersionRequested == "--version" \in args \/ "-v" \in args

MainPromptOpen ==
  pc \in {"askName", "askLanguage", "askModule", "askPackages", "askPort",
          "askHelpers", "askConflict", "askRename"}
OpenPrompts ==
  (IF helpPc = "prompt" THEN 1 ELSE 0) + (IF MainPromptOpen THEN 1 ELSE 0)

\* C6: with --help or -h only the help menu runs: the project-creation
\* prompts are not started, nothing touches the file system or the package
\* manager, and at most one prompt is open at a time; with --version or -v
\* the process exits with status 0 before any project prompt or mutation.
C6_HelpAndVersionRunAlone ==
  /\ HelpRequested =>
       /\ pc \in {"boot", "version", "main", "exited"}
       /\ ~Mutated
       /\ OpenPrompts <= 1
  /\ (VersionRequested /\ pc \notin {"boot", "version"}) =>
       /\ pc = "exited" /\ exitCode = 0
       /\ ~Mutated

\* C7: at the end of a run each deployment artifact has been written once
\* if its helper was selected and not at all otherwise, and the core
\* artifacts written, with their contents, are those the language, the
\* module system and the port give, whatever helpers were selected.
C7_DeploymentIffSelected ==
  /\ \A h \in DeploymentChoices :
       /\ WritesTo(DeploymentPath(h)) # {} => h \in deploymentHelpers
       /\ Cardinality(WritesTo(DeploymentPath(h))) <= 1
  /\ pc = "done" =>
       /\ \A h \in DeploymentChoices :
            Cardinality(WritesTo(DeploymentPath(h))) =
              IF h \in deploymentHelpers THEN 1 ELSE 0
       /\ { <<log[i].path, log[i].content>> :
              i \in { j \in WriteIndexes :
                        log[j].path \notin DeploymentPaths \cup {PackageJsonPath} } }
            = CoreArtifacts(isTS, isESM, port)
       /\ Cardinality(WritesTo(PackageJsonPath)) = 1

\* A finished run with only the compose helper selected.
C7_Witness ==
  /\ pc = "done"
  /\ deploymentHelpers = {"compose"}
  /\ ComposePath \in DOMAIN files
  /\ DockerfilePath \notin DOMAIN files

DenotesInteger(s) == s # <<>> /\ \A i \in 1..Len(s) : s[i] \in Digits

\* C8: generation never starts with a port that is not an integer p with
\* 0 < p < 65536, nor with an empty project name.
C8_OnlyValidConfigurationGenerates ==
  pc \notin {"boot", "version", "main", "askName", "askLanguage", "askModule",
             "askPackages", "askPort", "exited"} =>
    /\ DenotesInteger(port)
    /\ DecimalValue(port) > 0 /\ DecimalValue(port) < 65536
    /\ projectName # <<>>

\* Every write of the log has, before it, the mkdir of its directory.
DirectoryMadeBefore(i) ==
  \E j \in 1..(i - 1) :
    log[j].op = "mkdir" /\ log[i].path.dir \in Prefixes(log[j].dir)

TouchesManifest(e) ==
  \/ e.op = "exec"
  \/ e.op \in {"read", "write"} /\ e.path = PackageJsonPath

C11_ServiceNamedAfterProject ==
  ComposePath \in DOMAIN files =>
    /\ files[ComposePath].service = projectName
    /\ files[ComposePath].ports = <<port, port>>

\* C11, amended: in docker-compose.yml the service is always named `app`;
\* it is its container_name that equals the final project name; the port
\* mapping and the PORT variable carry the configured port.
C11_ContainerNamedAfterProject ==
  ComposePath \in DOMAIN files =>
    /\ files[ComposePath].service = ComposeServiceName
    /\ files[ComposePath].container_name = projectName
    /\ files[ComposePath].ports = <<port, port>>
    /\ files[ComposePath].envPort = port

\* A finished run that was renamed at the conflict question, with a port
\* other than the default: the compose file carries the new name.
C11_Witness ==
  /\ pc = "done"
  /\ conflictAction = "Choose a different name"
  /\ projectName = RenameDefault(NameApp)
  /\ port # DefaultPort
  /\ ComposePath \in DOMAIN files
  /\ files[ComposePath].container_name = RenameDefault(NameApp)

DigitChar(n) ==
  CASE n = 0 -> "0" [] n = 1 -> "1" [] n = 2 -> "2" [] n = 3 -> "3"
    [] n = 4 -> "4" [] n = 5 -> "5" [] n = 6 -> "6" [] n = 7 -> "7"
    [] n = 8 -> "8" [] n = 9 -> "9"

\* The decimal literal of a natural number, without leading zeros.
RECURSIVE DecimalLiteral(_)
DecimalLiteral(n) ==
  IF n < 10 THEN <<DigitChar(n)>>
  ELSE DecimalLiteral(n \div 10) \o <<DigitChar(n % 10)>>

\* The port texts found in the files written so far.
RenderedPorts ==
  (IF EnvPath \in DOMAIN files THEN {files[EnvPath].PORT} ELSE {})
  \cup { files[q].port : q \in { r \in SourcePaths : files[r].port # <<>> } }
  \cup (IF DockerfilePath \in DOMAIN files
        THEN {files[DockerfilePath].expose} ELSE {})
  \cup (IF ComposePath \in DOMAIN files
        THEN Range(files[ComposePath].ports) \cup {files[ComposePath].envPort}
        ELSE {})

\* C12: every port written into an artifact (.env, server entry,
\* Dockerfile, compose file) is the decimal literal, without leading zeros
\* or other characters, of the integer the validation read from the answer,
\* and all artifacts of a run carry the same text.
C12_PortRenderedAsDecimalLiteral ==
  /\ Cardinality(RenderedPorts) <= 1
  /\ \A r \in RenderedPorts : r = DecimalLiteral(ParseInt(port).val)

ManifestHasScript(name) ==
  /\ PackageJsonPath \in DOMAIN files
  /\ files[PackageJsonPath].scripts[name] # NoField

\* Deployment files of the tree that run `npm run build`.
BuildingArtifacts ==
  { q \in DOMAIN files \cap {DockerfilePath, JenkinsfilePath, CiPath} :
      files[q].runBuild }

\* C13: at the end of a run the deployment files run `npm run build`
\* exactly for TypeScript, and whenever one of them does, or scripts.start
\* points at dist/server.js, or the language is TypeScript, package.json
\* has a build script.
C13_BuildScriptDefined ==
  pc = "done" =>
    /\ \A q \in DOMAIN files \cap {DockerfilePath, JenkinsfilePath, CiPath} :
         files[q].runBuild <=> isTS
    /\ ( \/ BuildingArtifacts # {}
         \/ files[PackageJsonPath].scripts.start = "node dist/server.js"
         \/ isTS )
       => ManifestHasScript("build")

====
